---- MODULE Spec2Model ----
(***************************************************************************)
(* Model of src/appp.py: the heat-wave dashboard's data pipeline.          *)
(*                                                                         *)
(* A DataFrame is a sequence of rows (records); a column is a field.  The  *)
(* columns tempMax, tempMin, Lat and Long are only passed through to the   *)
(* renderer and are not modelled.  Strings the code inspects character by  *)
(* character (the isHW flag) are sequences of one-character strings.       *)
(* Means are exact fractions [n, d] in lowest terms with d > 0.            *)
(***************************************************************************)
EXTENDS Integers, Sequences, FiniteSets, TLC

VARIABLES
    raw,            \* the rows of the Excel file as read at line 24
    df,             \* module global df (line 80)
    dfColumns,      \* the column labels of df
    df_hw_summary,  \* module global df_hw_summary (line 81)
    cidades,        \* module global cidades (line 82)
    anos,           \* module global anos (line 83)
    lastCall,       \* the call that ran last: [op, cidade, ano]
    lastOut,        \* what that call returned
    firstCall,      \* history: a remembered earlier Aggregator call
    firstOut,       \* history: what the remembered call returned
    between         \* history: another call ran since the remembered one

vars == <<raw, df, dfColumns, df_hw_summary, cidades, anos,
          lastCall, lastOut, firstCall, firstOut, between>>

----------------------------------------------------------------------------
(* Bounds of the model *)

MaxRows == 3

----------------------------------------------------------------------------
(* Generic helpers *)

RECURSIVE SumSeq(_)
SumSeq(s) == IF s = <<>> THEN 0 ELSE Head(s) + SumSeq(Tail(s))

RECURSIVE Gcd(_, _)
Gcd(a, b) == IF b = 0 THEN a ELSE Gcd(b, a % b)

Abs(x) == IF x < 0 THEN -x ELSE x

\* the fraction n/d (d > 0) in lowest terms
Frac(n, d) == LET g == Gcd(Abs(n), d) IN [n |-> n \div g, d |-> d \div g]

FracSub(p, q) == Frac(p.n * q.d - q.n * p.d, p.d * q.d)

NaN == [n |-> 0, d |-> 0]

\* a finite set of integers as an ascending sequence
RECURSIVE SortInts(_)
SortInts(S) ==
    IF S = {} THEN <<>>
    ELSE LET m == CHOOSE x \in S : \A y \in S : x <= y
         IN <<m>> \o SortInts(S \ {m})

Range(s) == {s[i] : i \in DOMAIN s}

----------------------------------------------------------------------------
(* Python text: str(x) and str.upper() *)

LowerLetters == <<"a","b","c","d","e","f","g","h","i","j","k","l","m",
                  "n","o","p","q","r","s","t","u","v","w","x","y","z">>
UpperLetters == <<"A","B","C","D","E","F","G","H","I","J","K","L","M",
                  "N","O","P","Q","R","S","T","U","V","W","X","Y","Z">>

UpperChar(c) ==
    IF \E i \in DOMAIN LowerLetters : LowerLetters[i] = c
    THEN UpperLetters[CHOOSE i \in DOMAIN LowerLetters : LowerLetters[i] = c]
    ELSE c

\* str.upper()
upper(s) == [i \in DOMAIN s |-> UpperChar(s[i])]

Digits == <<"0","1","2","3","4","5","6","7","8","9">>

RECURSIVE IntToStr(_)
IntToStr(n) ==
    IF n < 10 THEN <<Digits[n + 1]>>
    ELSE IntToStr(n \div 10) \o <<Digits[(n % 10) + 1]>>

\* A cell of the isHW column as pandas reads it: a bool, a string, an
\* integer or an empty cell (NaN).  Every cell has the four fields.
BoolCell(b) == [kind |-> "bool", b |-> b, s |-> <<>>, n |-> 0]
StrCell(s)  == [kind |-> "str",  b |-> FALSE, s |-> s, n |-> 0]
IntCell(n)  == [kind |-> "int",  b |-> FALSE, s |-> <<>>, n |-> n]
NaNCell     == [kind |-> "nan",  b |-> FALSE, s |-> <<>>, n |-> 0]

\* str(x)
str(x) ==
    CASE x.kind = "bool" -> IF x.b THEN <<"T","r","u","e">>
                                   ELSE <<"F","a","l","s","e">>
      [] x.kind = "str"  -> x.s
      [] x.kind = "int"  -> IntToStr(x.n)
      [] x.kind = "nan"  -> <<"n","a","n">>

TRUE_TOKEN == <<"T","R","U","E">>

----------------------------------------------------------------------------
(* Pandas helpers *)

\* series.mean(): NaN for an empty series
mean(s) == IF s = <<>> THEN NaN ELSE Frac(SumSeq(s), Len(s))

\* the values of the tempMed column of a frame
tempMedOf(d) == [i \in DOMAIN d |-> d[i].tempMed]

\* pd.to_datetime on the date cell <<year, month, day>>
to_datetime(cell) == [year |-> cell[1], month |-> cell[2], day |-> cell[3]]

\* the order of timestamps
DateKey(ts) == (ts.year * 12 + ts.month) * 31 + ts.day

\* Python's order of the city names (sorted() at line 82, groupby's sort)
CityOrder == <<"Fortaleza", "Natal", "Recife">>

CityRank(c) == CHOOSE i \in DOMAIN CityOrder : CityOrder[i] = c

\* groupby's key order for ["cidade", "year"]: by city, then by year
KeyLess(k1, k2) ==
    \/ CityRank(k1[1]) < CityRank(k2[1])
    \/ CityRank(k1[1]) = CityRank(k2[1]) /\ k1[2] < k2[2]

RECURSIVE SortKeys(_)
SortKeys(S) ==
    IF S = {} THEN <<>>
    ELSE LET m == CHOOSE x \in S : \A y \in S \ {x} : KeyLess(x, y)
         IN <<m>> \o SortKeys(S \ {m})

RECURSIVE SortCities(_)
SortCities(S) ==
    IF S = {} THEN <<>>
    ELSE LET m == CHOOSE x \in S : \A y \in S : CityRank(x) <= CityRank(y)
         IN <<m>> \o SortCities(S \ {m})

\* Series.dt.strftime("%B") under the C locale
MonthNames == <<"January", "February", "March", "April", "May", "June",
                "July", "August", "September", "October", "November",
                "December">>

strftime_B(ts) == MonthNames[ts.month]

----------------------------------------------------------------------------
(* The program's functions *)

IsHW(r) == r.isHW = TRUE_TOKEN

\* load_data without the .upper() of line 26
load_data_no_upper(file) ==
    [i \in DOMAIN file |->
        [file[i] EXCEPT !.index = to_datetime(file[i].index),
                        !.isHW  = str(file[i].isHW)]]

load_data(file) ==
    [i \in DOMAIN file |->
        [file[i] EXCEPT !.index = to_datetime(file[i].index),
                        !.isHW  = upper(str(file[i].isHW))]]

\* calculate_hw_summary grouping every row and counting the flagged ones,
\* so that groups without a heat-wave day appear with 0
calculate_hw_summary_zero_groups(d) ==
    LET keys == SortKeys({<<d[i].cidade, d[i].year>> : i \in DOMAIN d})
    IN [k \in DOMAIN keys |->
          [cidade  |-> keys[k][1],
           year    |-> keys[k][2],
           dias_hw |-> Cardinality({i \in DOMAIN d :
                          /\ d[i].cidade = keys[k][1]
                          /\ d[i].year = keys[k][2]
                          /\ IsHW(d[i])})]]

calculate_hw_summary(d) ==
    LET df_hw == SelectSeq(d, IsHW)
        keys  == SortKeys({<<df_hw[i].cidade, df_hw[i].year>> : i \in DOMAIN df_hw})
    IN [k \in DOMAIN keys |->
          [cidade  |-> keys[k][1],
           year    |-> keys[k][2],
           dias_hw |-> Cardinality({i \in DOMAIN df_hw :
                          /\ df_hw[i].cidade = keys[k][1]
                          /\ df_hw[i].year = keys[k][2]})]]

FracAdd(p, q) == Frac(p.n * q.d + q.n * p.d, p.d * q.d)

RECURSIVE SumFrac(_)
SumFrac(s) ==
    IF s = <<>> THEN [n |-> 0, d |-> 1] ELSE FracAdd(Head(s), SumFrac(Tail(s)))

\* calculate_anomalies with the baseline taken as the mean of the yearly means
calculate_anomalies_mean_of_means(d, cidade) ==
    LET InCity(r)  == r.cidade = cidade
        sel        == SelectSeq(d, InCity)
        years      == SortInts({sel[i].year : i \in DOMAIN sel})
        OfYear(y)  == LET InYear(r) == r.year = y IN SelectSeq(sel, InYear)
        ymean(k)   == mean(tempMedOf(OfYear(years[k])))
        total      == SumFrac([k \in DOMAIN years |-> ymean(k)])
        baseline   == IF years = <<>> THEN NaN
                      ELSE Frac(total.n, total.d * Len(years))
    IN [k \in DOMAIN years |->
          [year     |-> years[k],
           tempMed  |-> ymean(k),
           anomalia |-> IF baseline = NaN THEN NaN
                        ELSE FracSub(ymean(k), baseline)]]

calculate_anomalies(d, cidade) ==
    LET InCity(r)  == r.cidade = cidade
        sel        == SelectSeq(d, InCity)
        baseline   == mean(tempMedOf(sel))
        years      == SortInts({sel[i].year : i \in DOMAIN sel})
        OfYear(y)  == LET InYear(r) == r.year = y IN SelectSeq(sel, InYear)
    IN [k \in DOMAIN years |->
          LET m == mean(tempMedOf(OfYear(years[k])))
          IN [year     |-> years[k],
              tempMed  |-> m,
              anomalia |-> IF baseline = NaN THEN NaN ELSE FracSub(m, baseline)]]

all_months == <<"January", "February", "March", "April", "May", "June",
                "July", "August", "September", "October", "November",
                "December">>

\* calculate_hw_monthly with an inner merge: months without a group are lost
calculate_hw_monthly_inner(d, cidade, ano) ==
    LET Match(r) == r.cidade = cidade /\ r.year = ano /\ IsHW(r)
        dff      == SelectSeq(d, Match)
        mes      == [i \in DOMAIN dff |-> strftime_B(dff[i].index)]
        groups   == Range(mes)
        size(g)  == Cardinality({i \in DOMAIN mes : mes[i] = g})
        InGroups(m) == m \in groups
        kept     == SelectSeq(all_months, InGroups)
    IN [k \in DOMAIN kept |-> [mes |-> kept[k], frequencia |-> size(kept[k])]]

calculate_hw_monthly(d, cidade, ano) ==
    LET Match(r) == r.cidade = cidade /\ r.year = ano /\ IsHW(r)
        dff      == SelectSeq(d, Match)
        mes      == [i \in DOMAIN dff |-> strftime_B(dff[i].index)]
        groups   == Range(mes)
        size(g)  == Cardinality({i \in DOMAIN mes : mes[i] = g})
    IN [k \in DOMAIN all_months |->
          [mes        |-> all_months[k],
           frequencia |-> IF all_months[k] \in groups
                          THEN size(all_months[k]) ELSE 0]]

\* the filter of update_temp_plot (line 162)
filterDaily(d, cidade, ano) ==
    LET Match(r) == r.cidade = cidade /\ r.year = ano
    IN SelectSeq(d, Match)

----------------------------------------------------------------------------
(* Inputs: the rows a spreadsheet may hold, and the values a call may get *)

RawRow(c, y, md, t, f) ==
    [index |-> <<y, md[1], md[2]>>, cidade |-> c, year |-> y,
     tempMed |-> t, isHW |-> f]

\* rows that differ in city, year and flag
PoolGroups ==
    {RawRow(c, y, <<1, 5>>, 28, f) :
        c \in {"Fortaleza", "Recife"}, y \in {2020, 2022},
        f \in {BoolCell(TRUE), BoolCell(FALSE)}}

\* rows of one city that differ in year, date and flag
PoolMonths ==
    {RawRow("Recife", y, md, 28, f) :
        y \in {2020, 2022}, md \in {<<1, 5>>, <<3, 2>>},
        f \in {BoolCell(TRUE), BoolCell(FALSE)}}

\* rows that differ in city, year and temperature
PoolTemps ==
    {RawRow(c, y, <<1, 5>>, t, BoolCell(TRUE)) :
        c \in {"Fortaleza", "Recife"}, y \in {2020, 2022}, t \in {28, 30}}

\* rows that differ in the raw flag
RawFlags ==
    {BoolCell(TRUE), BoolCell(FALSE), NaNCell, IntCell(1),
     StrCell(<<"t","r","u","e">>), StrCell(<<"T","R","U","E">>),
     StrCell(<<"T","R","U","E"," ">>), StrCell(<<"f","a","l","s","e">>)}

PoolFlags == {RawRow("Recife", 2020, <<1, 5>>, 28, f) : f \in RawFlags}

\* a small pool for the runs that remember an earlier call
PoolIdem ==
    {RawRow("Recife", 2020, <<1, 5>>, t, f) :
        t \in {28, 30}, f \in {BoolCell(TRUE), BoolCell(FALSE)}}

\* the program does not start on an empty sheet (cidades[0], min(anos))
Datasets(pool) == UNION {[1..n -> pool] : n \in 1..MaxRows}

FileColumns == {"index", "cidade", "year", "tempMed", "isHW"}

CityArgs == {"Fortaleza", "Natal", "Recife"}
YearArgs == {2020, 2021, 2022}

\* a cleared dropdown delivers None, which equals no cell
NoneCity == "None"
NoneYear == 0

DropdownCities == Range(cidades) \cup {NoneCity}
DropdownYears  == Range(anos) \cup {NoneYear}
\* dcc.Slider(min=min(anos), max=max(anos), step=1)
SliderYears    == anos[1] .. anos[Len(anos)]

----------------------------------------------------------------------------
(* The state machine *)

NoCall == [op |-> "none", args |-> <<>>]
Ok(v)  == [status |-> "ok", value |-> v]

InitWith(pool) ==
    /\ raw \in Datasets(pool)
    /\ df = load_data(raw)
    /\ dfColumns = FileColumns
    /\ df_hw_summary = calculate_hw_summary(df)
    /\ cidades = SortCities({df[i].cidade : i \in DOMAIN df})
    /\ anos = SortInts({df[i].year : i \in DOMAIN df})
    /\ lastCall = NoCall
    /\ lastOut = Ok(<<>>)
    /\ firstCall = NoCall
    /\ firstOut = Ok(<<>>)
    /\ between = FALSE

Init       == InitWith(PoolGroups)
InitMonths == InitWith(PoolMonths)
InitTemps  == InitWith(PoolTemps)
InitFlags  == InitWith(PoolFlags)
InitIdem   == InitWith(PoolIdem)

Call(op, args) == [op |-> op, args |-> args]

\* the history variables after the call `call`
History(call) ==
    /\ between' = (firstCall # NoCall /\ (between \/ call # firstCall))
    /\ UNCHANGED <<firstCall, firstOut>>

\* what no function of the program assigns
Frame == UNCHANGED <<raw, df, dfColumns, df_hw_summary, cidades, anos>>

\* calculate_hw_summary narrowing df itself to the heat-wave rows
Call_calculate_hw_summary_in_place ==
    /\ lastCall' = Call("calculate_hw_summary", <<>>)
    /\ lastOut' = Ok(calculate_hw_summary(df))
    /\ History(Call("calculate_hw_summary", <<>>))
    /\ df' = SelectSeq(df, IsHW)
    /\ UNCHANGED <<raw, dfColumns, df_hw_summary, cidades, anos>>

Call_calculate_hw_summary ==
    /\ lastCall' = Call("calculate_hw_summary", <<>>)
    /\ lastOut' = Ok(calculate_hw_summary(df))
    /\ History(Call("calculate_hw_summary", <<>>))
    /\ Frame

Call_calculate_anomalies ==
    \E cidade \in CityArgs :
        /\ lastCall' = Call("calculate_anomalies", <<cidade>>)
        /\ lastOut' = Ok(calculate_anomalies(df, cidade))
        /\ History(Call("calculate_anomalies", <<cidade>>))
        /\ Frame

\* calculate_hw_monthly writing the "mes" column into df itself
Call_calculate_hw_monthly_no_copy ==
    \E cidade \in CityArgs, ano \in YearArgs :
        /\ lastCall' = Call("calculate_hw_monthly", <<cidade, ano>>)
        /\ lastOut' = Ok(calculate_hw_monthly(df, cidade, ano))
        /\ History(Call("calculate_hw_monthly", <<cidade, ano>>))
        /\ dfColumns' = dfColumns \cup {"mes"}
        /\ UNCHANGED <<raw, df, df_hw_summary, cidades, anos>>

Call_calculate_hw_monthly ==
    \E cidade \in CityArgs, ano \in YearArgs :
        /\ lastCall' = Call("calculate_hw_monthly", <<cidade, ano>>)
        /\ lastOut' = Ok(calculate_hw_monthly(df, cidade, ano))
        /\ History(Call("calculate_hw_monthly", <<cidade, ano>>))
        /\ Frame

\* A figure is the sequence of its traces.  The three traces of the
\* temperature figure share x; only the "Média" trace is modelled.
update_temp_plot ==
    \E cidade \in DropdownCities, ano \in SliderYears :
        LET dff == filterDaily(df, cidade, ano)
            fig == <<[dates   |-> [i \in DOMAIN dff |-> dff[i].index],
                      tempMed |-> tempMedOf(dff)]>>
        IN /\ lastCall' = Call("update_temp_plot", <<cidade, ano>>)
           /\ lastOut' = Ok(fig)
           /\ History(Call("update_temp_plot", <<cidade, ano>>))
           /\ Frame

update_anomaly_plot ==
    \E cidade \in DropdownCities :
        LET df_anomalia == calculate_anomalies(df, cidade)
            fig == <<[years     |-> [i \in DOMAIN df_anomalia |-> df_anomalia[i].year],
                      anomalias |-> [i \in DOMAIN df_anomalia |->
                                        df_anomalia[i].anomalia]]>>
        IN /\ lastCall' = Call("update_anomaly_plot", <<cidade>>)
           /\ lastOut' = Ok(fig)
           /\ History(Call("update_anomaly_plot", <<cidade>>))
           /\ Frame

update_polar_plot ==
    \E cidade \in DropdownCities, ano \in DropdownYears :
        LET df_polar == calculate_hw_monthly(df, cidade, ano)
            fig == <<[r     |-> [i \in DOMAIN df_polar |-> df_polar[i].frequencia],
                      theta |-> [i \in DOMAIN df_polar |-> df_polar[i].mes]]>>
        IN /\ lastCall' = Call("update_polar_plot", <<cidade, ano>>)
           /\ lastOut' = Ok(fig)
           /\ History(Call("update_polar_plot", <<cidade, ano>>))
           /\ Frame

AggregatorOps == {"calculate_hw_summary", "calculate_anomalies",
                  "calculate_hw_monthly"}

\* history: remember the Aggregator call that just ran, once
Remember ==
    /\ firstCall = NoCall
    /\ lastCall.op \in AggregatorOps
    /\ firstCall' = lastCall
    /\ firstOut' = lastOut
    /\ UNCHANGED <<raw, df, dfColumns, df_hw_summary, cidades, anos,
                   lastCall, lastOut, between>>

Next ==
    \/ Call_calculate_hw_summary
    \/ Call_calculate_anomalies
    \/ Call_calculate_hw_monthly
    \/ update_temp_plot
    \/ update_anomaly_plot
    \/ update_polar_plot

NextIdem == Next \/ Remember

Spec       == Init /\ [][Next]_vars
SpecMonths == InitMonths /\ [][Next]_vars
SpecTemps  == InitTemps /\ [][Next]_vars
SpecFlags  == InitFlags /\ [][Next]_vars
SpecIdem   == InitIdem /\ [][NextIdem]_vars

----------------------------------------------------------------------------
(* What the claims speak of *)

out == lastOut.value

\* the positions of the rows of d that satisfy P
Rows(d, P(_)) == {i \in DOMAIN d : P(d[i])}

HWDays(c, y) ==
    LET P(r) == r.cidade = c /\ r.year = y /\ IsHW(r) IN Cardinality(Rows(df, P))

Observations(c, y) ==
    LET P(r) == r.cidade = c /\ r.year = y IN Cardinality(Rows(df, P))

CityObservations(c) ==
    LET P(r) == r.cidade = c IN Cardinality(Rows(df, P))

KnownCities == {df[i].cidade : i \in DOMAIN df}
KnownYears  == {df[i].year : i \in DOMAIN df}

----------------------------------------------------------------------------
\* C1: calculate_hw_summary returns at most one row per (city, year); each
\* row's count is the number of heat-wave-day Observations of that city and
\* year; no row has count 0; a pair appears iff it has a heat-wave day.
C1_SummaryCounts ==
    lastCall.op = "calculate_hw_summary" =>
        /\ \A i, j \in DOMAIN out :
              (out[i].cidade = out[j].cidade /\ out[i].year = out[j].year) => i = j
        /\ \A i \in DOMAIN out :
              /\ out[i].dias_hw = HWDays(out[i].cidade, out[i].year)
              /\ out[i].dias_hw > 0
        /\ \A c \in KnownCities, y \in KnownYears :
              (\E i \in DOMAIN out : out[i].cidade = c /\ out[i].year = y)
                  <=> HWDays(c, y) > 0

\* a summary with a row counting two days, of a Dataset that also has a
\* (city, year) with an Observation and without any heat-wave day
C1_Witness ==
    /\ lastCall.op = "calculate_hw_summary"
    /\ \E i \in DOMAIN out : out[i].dias_hw = 2
    /\ \E c \in KnownCities, y \in KnownYears :
          Observations(c, y) > 0 /\ HWDays(c, y) = 0

----------------------------------------------------------------------------
\* C2: calculate_hw_monthly returns exactly 12 rows, January..December in
\* calendar order; each frequency is the number of heat-wave-day
\* Observations of that city and year in that month (0 when none), so the
\* frequencies sum to the heat-wave-day count of the (city, year).
C2_MonthlyFrequency ==
    lastCall.op = "calculate_hw_monthly" =>
        LET c == lastCall.args[1]
            y == lastCall.args[2]
            InMonth(m) ==
                LET P(r) == /\ r.cidade = c /\ r.year = y /\ IsHW(r)
                            /\ r.index.month = m
                IN Cardinality(Rows(df, P))
        IN /\ Len(out) = 12
           /\ \A m \in 1..12 :
                 /\ out[m].mes = MonthNames[m]
                 /\ out[m].frequencia = InMonth(m)
           /\ SumSeq([m \in DOMAIN out |-> out[m].frequencia]) = HWDays(c, y)

\* the spec's example: two heat-wave days in January and one in March
C2_Witness ==
    /\ lastCall = [op |-> "calculate_hw_monthly", args |-> <<"Recife", 2020>>]
    /\ Len(out) = 12
    /\ out[1].frequencia = 2
    /\ out[2].frequencia = 0
    /\ out[3].frequencia = 1
    /\ Observations("Recife", 2020) = 3

----------------------------------------------------------------------------
\* C3: for a city with Observations, calculate_anomalies returns one row
\* per year present, in ascending year order; each anomaly is that year's
\* mean tempMed minus the mean tempMed over all Observations of the city.
C3_Anomalies ==
    (lastCall.op = "calculate_anomalies" /\ CityObservations(lastCall.args[1]) > 0) =>
        LET c == lastCall.args[1]
            InCity(r) == r.cidade = c
            sel == SelectSeq(df, InCity)
            yrs == {sel[i].year : i \in DOMAIN sel}
            sumAll == SumSeq(tempMedOf(sel))
            cntAll == Len(sel)
            OfYear(y) == LET P(r) == r.year = y IN SelectSeq(sel, P)
        IN /\ {out[k].year : k \in DOMAIN out} = yrs
           /\ Len(out) = Cardinality(yrs)
           /\ \A k \in DOMAIN out : k > 1 => out[k - 1].year < out[k].year
           /\ \A k \in DOMAIN out :
                 LET sumY == SumSeq(tempMedOf(OfYear(out[k].year)))
                     cntY == Len(OfYear(out[k].year))
                     a    == out[k].anomalia
                 IN /\ a.d > 0
                    /\ out[k].tempMed.d > 0
                    /\ out[k].tempMed.n * cntY = sumY * out[k].tempMed.d
                    \* a = sumY/cntY - sumAll/cntAll
                    /\ a.n * cntY * cntAll = a.d * (sumY * cntAll - sumAll * cntY)

\* two years of unequal size: 28, 28 in the first year and 30 in the second
\* (the mean over Observations is 86/3, the mean of the yearly means is 29)
C3_Witness ==
    /\ lastCall.op = "calculate_anomalies"
    /\ Len(out) = 2
    /\ out[1].anomalia = [n |-> -2, d |-> 3]
    /\ out[2].anomalia = [n |-> 4, d |-> 3]

----------------------------------------------------------------------------
\* C4: the callbacks validate the selection first: a city outside the known
\* cities, a year outside the known years, or a (city, year) without any
\* Observation ends in InvalidSelectionError, never in a successful result.
C4_DispatcherRejects ==
    /\ (lastCall.op \in {"update_temp_plot", "update_polar_plot"}
          /\ Observations(lastCall.args[1], lastCall.args[2]) = 0)
            => lastOut.status = "InvalidSelectionError"
    /\ (lastCall.op = "update_anomaly_plot"
          /\ lastCall.args[1] \notin KnownCities)
            => lastOut.status = "InvalidSelectionError"

----------------------------------------------------------------------------
\* C5: calculate_anomalies for a city without Observations fails with
\* UnknownCityError and returns no result.
C5_UnknownCityFails ==
    (lastCall.op = "calculate_anomalies" /\ CityObservations(lastCall.args[1]) = 0)
        => lastOut.status = "UnknownCityError"

----------------------------------------------------------------------------
\* C6: calculate_hw_monthly fails, with no result, for a city or a year
\* that has no Observation, and succeeds with 12 rows of frequency 0 for a
\* (city, year) that has Observations and no heat-wave day.
C6_InvalidIsNotEmpty ==
    lastCall.op = "calculate_hw_monthly" =>
        LET c == lastCall.args[1]
            y == lastCall.args[2]
        IN /\ (c \notin KnownCities \/ y \notin KnownYears) => lastOut.status # "ok"
           /\ (Observations(c, y) > 0 /\ HWDays(c, y) = 0) =>
                 /\ lastOut.status = "ok"
                 /\ Len(out) = 12
                 /\ \A m \in DOMAIN out : out[m].frequencia = 0

----------------------------------------------------------------------------
\* C7: no call changes the Dataset (its rows, fields and columns) or the
\* known city and year lists derived at startup.
C7_DatasetUnchanged ==
    [][/\ df' = df
       /\ dfColumns' = dfColumns
       /\ cidades' = cidades
       /\ anos' = anos]_vars

\* calculate_hw_monthly has assigned the "mes" column on a non-empty frame
C7_Witness ==
    /\ lastCall.op = "calculate_hw_monthly"
    /\ \E m \in DOMAIN out : out[m].frequencia > 0
    /\ df = load_data(raw)
    /\ dfColumns = FileColumns

----------------------------------------------------------------------------
\* C8: an Aggregator call repeated with the same arguments returns what it
\* returned before, whatever calls ran in between; calculate_hw_summary
\* returns what it returned at startup.
C8_Idempotent ==
    /\ (firstCall # NoCall /\ lastCall = firstCall) => lastOut = firstOut
    /\ lastCall.op = "calculate_hw_summary" => out = df_hw_summary

\* the remembered call ran again after another call, with a non-trivial result
C8_Witness ==
    /\ firstCall.op = "calculate_anomalies"
    /\ lastCall = firstCall
    /\ between
    /\ Len(out) > 0

----------------------------------------------------------------------------
\* C9: the filter of update_temp_plot returns exactly the Observations of
\* the city and year, in ascending timestamp order.
C9_FilterDailySorted ==
    lastCall.op = "update_temp_plot" =>
        LET dates == out[1].dates
        IN /\ Len(dates) = Observations(lastCall.args[1], lastCall.args[2])
           /\ \A i, j \in DOMAIN dates :
                 i < j => DateKey(dates[i]) <= DateKey(dates[j])

----------------------------------------------------------------------------
\* C10: a row is a heat-wave day iff the text of its raw flag, uppercased,
\* is "TRUE"; every other raw value counts as false; calculate_hw_summary
\* and calculate_hw_monthly count the same rows.
IsLetter(ch, lo, up) == ch = lo \/ ch = up

\* the raw cell's text is T-R-U-E in any letter case and nothing else
TextIsTrue(cell) ==
    \/ cell.kind = "bool" /\ cell.b
    \/ /\ cell.kind = "str"
       /\ Len(cell.s) = 4
       /\ IsLetter(cell.s[1], "t", "T")
       /\ IsLetter(cell.s[2], "r", "R")
       /\ IsLetter(cell.s[3], "u", "U")
       /\ IsLetter(cell.s[4], "e", "E")

RawHWDays(c, y) ==
    LET P(r) == r.cidade = c /\ r.year = y /\ TextIsTrue(r.isHW)
    IN Cardinality(Rows(raw, P))

C10_HeatWaveFlag ==
    /\ Len(df) = Len(raw)
    /\ \A i \in DOMAIN df : IsHW(df[i]) <=> TextIsTrue(raw[i].isHW)
    /\ lastCall.op = "calculate_hw_summary" =>
          /\ \A i \in DOMAIN out :
                out[i].dias_hw = RawHWDays(out[i].cidade, out[i].year)
          /\ \A c \in KnownCities, y \in KnownYears :
                RawHWDays(c, y) > 0 =>
                    \E i \in DOMAIN out : out[i].cidade = c /\ out[i].year = y
    /\ lastCall.op = "calculate_hw_monthly" =>
          SumSeq([m \in DOMAIN out |-> out[m].frequencia])
              = RawHWDays(lastCall.args[1], lastCall.args[2])

\* a sheet with a lower-case "true", a "TRUE " with a trailing blank and an
\* empty cell, read by calculate_hw_monthly: one heat-wave day
C10_Witness ==
    /\ lastCall = [op |-> "calculate_hw_monthly", args |-> <<"Recife", 2020>>]
    /\ \E i \in DOMAIN raw : raw[i].isHW = StrCell(<<"t","r","u","e">>)
    /\ \E i \in DOMAIN raw : raw[i].isHW = StrCell(<<"T","R","U","E"," ">>)
    /\ \E i \in DOMAIN raw : raw[i].isHW = NaNCell
    /\ out[1].frequencia = 1

====
